---------------------------- MODULE Spec2Model ----------------------------
(***************************************************************************)
(* Staking ledger and settlement engine of Hot-Take.                       *)
(*                                                                         *)
(* The committed database state is the three tables users, predictions     *)
(* and votes.  Every request handler is a process whose steps are the      *)
(* awaited database statements of its code; a step is one statement plus   *)
(* the synchronous JavaScript that follows it.  Statements issued through  *)
(* `tx` belong to the handler's transaction (READ COMMITTED: each          *)
(* statement reads the committed rows plus the transaction's own writes,   *)
(* an UPDATE takes the row lock and waits while another transaction holds  *)
(* it, writes become visible at COMMIT).  Statements issued through `db`   *)
(* or `storage` run on another pooled connection and autocommit.           *)
(***************************************************************************)
EXTENDS Integers, Sequences, FiniteSets, TLC

(* ------------------------------ bounds -------------------------------- *)
NumUsers == 3
NumCallers == 2
NumMarkets == 1
NumProcs == 2
MaxRequests == 3
MaxTime == 1
MaxCreated == 1

(* ------------------------- program constants -------------------------- *)
StartPoints == 1000

Users == 1..NumUsers
\* the users that send requests while handlers interleave
Callers == 1..NumCallers
Markets == 1..NumMarkets
Procs == 1..NumProcs
\* a prediction id that is never created (any uuid not in the table)
MissingId == 0
\* pointsStaked values a request may carry; insertVoteSchema accepts any
\* integer, so zero and negative amounts are requests the server accepts
StakeChoices == {600, -5}
\* stakes of the votes already placed when only settlement is examined
SettleStakes == {7, 15, 22}
\* stakes of the votes already placed when lifetime statistics are examined
LifetimeStakes == {10}

(* ------------------------------ helpers ------------------------------- *)
RECURSIVE SumSeq(_)
SumSeq(s) == IF s = <<>> THEN 0 ELSE Head(s) + SumSeq(Tail(s))

Staked(s) == SumSeq([k \in 1..Len(s) |-> s[k].pointsStaked])

RECURSIVE Pow2(_)
Pow2(n) == IF n <= 0 THEN 1 ELSE 2 * Pow2(n - 1)

RECURSIVE Pow2Mod(_, _)
Pow2Mod(n, w) == IF n <= 0 THEN 1 % w ELSE (2 * Pow2Mod(n - 1, w)) % w


(* ---------------- IEEE-754 double arithmetic of the payout ------------- *)
(* resolvePrediction computes                                              *)
(*     proportion = winner.pointsStaked / totalWinnerPoints                *)
(*     winnings   = Math.floor(proportion * totalLoserPoints)              *)
(* in binary64 with round-to-nearest-even.  For operands far below 2^26    *)
(* the rounded product can differ from the exact quotient a*L/W by less    *)
(* than 1/W, so the floor differs from the exact floor only when W divides *)
(* a*L and the two roundings leave the product on the wrong side of that   *)
(* integer.  Which side is decided exactly, in integers: with              *)
(* 2^-e <= a/W < 2^(1-e) the quotient keeps 53 bits, q = M / 2^(52+e),     *)
(* a * 2^(52+e) = M * W + r, and q * L = k - r*L / (W * 2^(52+e)).         *)

\* e such that 2^-e <= a/W < 2^(1-e), for a, W > 0
RECURSIVE BinExpUp(_, _, _)
BinExpUp(a, w, e) == IF a * Pow2(e) >= w THEN e ELSE BinExpUp(a, w, e + 1)

RECURSIVE BinExpDown(_, _, _)
BinExpDown(a, w, j) == IF a < w * Pow2(j + 1) THEN -j ELSE BinExpDown(a, w, j + 1)

BinExp(a, w) == IF a < w THEN BinExpUp(a, w, 1) ELSE BinExpDown(a, w, 0)

\* t such that 2^t <= k < 2^(t+1), for k > 0
RECURSIVE ILog2(_)
ILog2(k) == IF k < 2 THEN 0 ELSE 1 + ILog2(k \div 2)

\* signed remainder r of rounding a/W to 53 bits: r > 0 when the quotient
\* was rounded down, r < 0 when it was rounded up, 0 when it is exact
\* (2*rho = W would be a tie, which needs a 54-bit quotient: not below 2^26)
QuotientRemainder(a, w) ==
  LET rho == (a * Pow2Mod(52 + BinExp(a, w), w)) % w
  IN  IF 2 * rho <= w THEN rho ELSE rho - w

\* -1, 0, 1: whether fl(fl(a/W) * L) is below, at or above k = a*L/W,
\* for a, W, L > 0 with W dividing a*L
ProductSide(a, w, l) ==
  LET k == (a * l) \div w
      e == BinExp(a, w)
      t == ILog2(k)
      r == QuotientRemainder(a, w)
  IN  IF r = 0 THEN 0
      ELSE IF r > 0
           THEN \* k - eps rounds to k iff eps is at most half the gap below k
                IF 4 * r * l <= w * Pow2(IF k = Pow2(t) THEN e + t ELSE e + t + 1)
                THEN 0 ELSE -1
           ELSE IF 4 * (-r) * l <= w * Pow2(e + t + 1) THEN 0 ELSE 1

\* Math.floor((a / W) * L) for W > 0, L > 0 and any integer a
FloorProportion(a, w, l) ==
  LET m == IF a < 0 THEN -a ELSE a
      k == (m * l) \div w
  IN  IF m = 0 THEN 0
      ELSE IF (m * l) % w # 0
           THEN IF a > 0 THEN k ELSE -(k + 1)
           ELSE IF a > 0
                THEN (IF ProductSide(m, w, l) < 0 THEN k - 1 ELSE k)
                ELSE (IF ProductSide(m, w, l) > 0 THEN -(k + 1) ELSE -k)

\* the exact floor of a*L/W, for W > 0
ExactFloor(a, w, l) ==
  IF a * l >= 0 THEN (a * l) \div w
  ELSE -(((-(a * l)) + w - 1) \div w)

\* winnings of one winning vote (storage.ts: let winnings = 0; if (...) {...})
Winnings(pointsStaked, totalWinnerPoints, totalLoserPoints) ==
  IF totalLoserPoints > 0 /\ totalWinnerPoints > 0
  THEN FloorProportion(pointsStaked, totalWinnerPoints, totalLoserPoints)
  ELSE 0


(* ------------------------------- tables ------------------------------- *)
\* a users row as createUser inserts it (schema defaults)
NewUser ==
  [points |-> StartPoints, totalPredictions |-> 0, correctPredictions |-> 0,
   accuracyScore |-> 0]

\* a predictions row as createPrediction inserts it (schema defaults)
NewPrediction(userId, resolutionDate) ==
  [userId |-> userId, resolutionDate |-> resolutionDate, resolved |-> FALSE,
   resolvedValue |-> "null", totalStakes |-> 0, totalPoints |-> 0,
   yesVotes |-> 0, noVotes |-> 0, yesPoints |-> 0, noPoints |-> 0]

\* a votes row
NewVote(userId, predictionId, stance, pointsStaked) ==
  [userId |-> userId, predictionId |-> predictionId, stance |-> stance,
   pointsStaked |-> pointsStaked]

\* the value of the nullable boolean column resolved_value
BoolValue(b) == IF b THEN "true" ELSE "false"

VotesOf(rows, predictionId) ==
  SelectSeq(rows, LAMBDA v : v.predictionId = predictionId)

VotesWith(rows, stance) == SelectSeq(rows, LAMBDA v : v.stance = stance)

\* the aggregate select of updatePredictionStats over the rows it can see
VoteStats(rows, predictionId) ==
  LET mine == VotesOf(rows, predictionId)
  IN  [totalStakes |-> Len(mine), totalPoints |-> Staked(mine),
       yesVotes |-> Len(VotesWith(mine, TRUE)),
       noVotes |-> Len(VotesWith(mine, FALSE)),
       yesPoints |-> Staked(VotesWith(mine, TRUE)),
       noPoints |-> Staked(VotesWith(mine, FALSE))]

NoStats ==
  [totalStakes |-> 0, totalPoints |-> 0, yesVotes |-> 0, noVotes |-> 0,
   yesPoints |-> 0, noPoints |-> 0]

\* the aggregate columns of a predictions row
StatsOf(row) ==
  [totalStakes |-> row.totalStakes, totalPoints |-> row.totalPoints,
   yesVotes |-> row.yesVotes, noVotes |-> row.noVotes,
   yesPoints |-> row.yesPoints, noPoints |-> row.noPoints]

\* the message a vote route broadcasts; the route with db.transaction puts
\* the predictions row it read into it, the other route the vote only
VoteUpdate(predictionId, prediction) ==
  [type |-> "vote_update", predictionId |-> predictionId,
   prediction |-> prediction]

(* ------------------------------- state -------------------------------- *)
VARIABLES
  now,          \* the server clock (new Date())
  users,        \* committed rows of table users
  predictions,  \* committed rows of table predictions
  votes,        \* committed rows of table votes, in insertion order
  h,            \* the request handlers: position and local variables
  requests,     \* requests accepted so far
  sent          \* the messages broadcast to the WebSocket clients so far

vars == <<now, users, predictions, votes, h, requests, sent>>

\* a handler with no request; tx* are the uncommitted writes and row locks
\* of its transaction
Idle ==
  [pc |-> "idle", kind |-> "none", userId |-> 0, predictionId |-> 0,
   stance |-> FALSE, pointsStaked |-> 0, resolvedValue |-> FALSE,
   txOpen |-> FALSE, txVotes |-> <<>>, txLocks |-> {},
   txUsers |-> [u \in Users |-> NewUser], txPrediction |-> FALSE,
   allVotes |-> <<>>, i |-> 0, stats |-> NoStats, count |-> 0,
   updatedPrediction |-> <<>>, resolutionDate |-> 0, res |-> "none"]

\* the handler after its response: only the response is kept
Done(r, response) == [Idle EXCEPT !.res = response]

Free(p) == h[p].pc = "idle"

\* another transaction holds the row lock of users row u
UserLockedByOther(p, u) ==
  \E q \in Procs \ {p} : u \in h[q].txLocks

UserLocked(u) == \E q \in Procs : u \in h[q].txLocks

\* another transaction holds the row lock of predictions row m
PredictionLockedByOther(p, m) ==
  \E q \in Procs \ {p} : h[q].txPrediction /\ h[q].predictionId = m

PredictionLocked(m) ==
  \E q \in Procs : h[q].txPrediction /\ h[q].predictionId = m

\* the users row a statement of p's transaction reads or updates
TxUser(p, u) == IF u \in h[p].txLocks THEN h[p].txUsers[u] ELSE users[u]

\* the markets exist from the start: market m was created by user
\* OwnerOf(m) with a resolution date that has not passed yet
OwnerOf(m) == ((m - 1) % NumCallers) + 1

\* a users row after the user created the given number of predictions and
\* nothing else: POST /api/predictions ends with updateUserStats
Registered(created) == [NewUser EXCEPT !.totalPredictions = created]

Init ==
  /\ now = 0
  /\ users = [u \in Users |->
                Registered(Cardinality({m \in Markets : OwnerOf(m) = u}))]
  /\ predictions = [m \in Markets |-> NewPrediction(OwnerOf(m), MaxTime)]
  /\ votes = <<>>
  /\ h = [p \in Procs |-> Idle]
  /\ requests = 0
  /\ sent = {}


(* ------------------------- the environment ---------------------------- *)
\* time passes
Tick ==
  /\ now < MaxTime
  /\ now' = now + 1
  /\ UNCHANGED <<users, predictions, votes, h, requests, sent>>

\* positions at which the handler's next statement runs on `tx`
TxPositions ==
  {"tvSelectUser", "tvInsert", "tvUpdatePoints", "tvCommit",
   "rsSelect", "rsUpdate", "rsVotes", "rsCredit", "rsStats", "rsCommit"}

\* The database ends p's transaction (connection lost, backend terminated,
\* deadlock victim): its writes are rolled back and its locks released.
\* The handler's next statement on `tx` rejects and the route answers 500.
TxAbort(p) ==
  /\ h[p].txOpen
  /\ h' = [h EXCEPT ![p] =
             IF h[p].pc \in TxPositions THEN Done(h[p], "Failed")
             ELSE [@ EXCEPT !.txOpen = FALSE, !.txVotes = <<>>,
                            !.txLocks = {}, !.txUsers = Idle.txUsers,
                            !.txPrediction = FALSE]]
  /\ UNCHANGED <<now, users, predictions, votes, requests, sent>>

(* ------------- storage functions called from several routes ----------- *)
\* storage.getUserVote: select through db, sees committed rows only
GetUserVote(userId, predictionId) ==
  SelectSeq(votes, LAMBDA v : v.userId = userId /\ v.predictionId = predictionId)

\* storage.updatePredictionStats, the aggregate select (through db)
UpdatePredictionStatsSelect(p) ==
  /\ h[p].pc = "statsSelect"
  /\ h' = [h EXCEPT ![p].stats = VoteStats(votes, h[p].predictionId),
                    ![p].pc = "statsUpdate"]
  /\ UNCHANGED <<now, users, predictions, votes, requests, sent>>

\* storage.updatePredictionStats, the update of the predictions row
\* (through db: autocommit, waits for the row lock)
UpdatePredictionStatsUpdate(p) ==
  /\ h[p].pc = "statsUpdate"
  /\ ~PredictionLocked(h[p].predictionId)
  /\ predictions' =
       [predictions EXCEPT ![h[p].predictionId] =
          [@ EXCEPT !.totalStakes = h[p].stats.totalStakes,
                    !.totalPoints = h[p].stats.totalPoints,
                    !.yesVotes = h[p].stats.yesVotes,
                    !.noVotes = h[p].stats.noVotes,
                    !.yesPoints = h[p].stats.yesPoints,
                    !.noPoints = h[p].stats.noPoints]]
  /\ h' = [h EXCEPT ![p].stats = NoStats,
                    ![p].pc = IF h[p].kind = "voteTx" THEN "userStatsSelect"
                              ELSE "lvUpdatePoints"]
  /\ UNCHANGED <<now, users, votes, requests, sent>>

\* count(distinct predictions.id) of updateUserStats' select
PredictionsCreatedBy(userId) ==
  Cardinality({m \in DOMAIN predictions : predictions[m].userId = userId})

\* storage.updateUserStats, the counting select (through db)
UpdateUserStatsSelect(p) ==
  /\ h[p].pc = "userStatsSelect"
  /\ h' = [h EXCEPT ![p].count = PredictionsCreatedBy(h[p].userId),
                    ![p].pc = "userStatsUpdate"]
  /\ UNCHANGED <<now, users, predictions, votes, requests, sent>>

\* storage.updateUserStats, the update of the users row (through db:
\* autocommit, waits while any transaction holds the row lock, the caller's
\* own transaction included)
UpdateUserStatsUpdate(p) ==
  /\ h[p].pc = "userStatsUpdate"
  /\ ~UserLocked(h[p].userId)
  /\ users' = [users EXCEPT ![h[p].userId].totalPredictions = h[p].count]
  /\ h' = [h EXCEPT ![p] =
             IF h[p].kind = "create" THEN Done(h[p], "ok")
             ELSE [@ EXCEPT !.count = 0, !.pc = "tvGetPrediction"]]
  /\ UNCHANGED <<now, predictions, votes, requests, sent>>

(* ---------- POST /api/votes, the route with db.transaction ------------ *)
StartVoteTx(p, userId, predictionId, stance, pointsStaked) ==
  /\ Free(p)
  /\ requests < MaxRequests
  /\ requests' = requests + 1
  /\ h' = [h EXCEPT ![p] =
             [Idle EXCEPT !.pc = "tvGetUserVote", !.kind = "voteTx",
                          !.userId = userId, !.predictionId = predictionId,
                          !.stance = stance, !.pointsStaked = pointsStaked,
                          !.txOpen = TRUE]]
  /\ UNCHANGED <<now, users, predictions, votes, sent>>

\* const existingVote = await storage.getUserVote(...)
VoteTxGetUserVote(p) ==
  /\ h[p].pc = "tvGetUserVote"
  /\ h' = [h EXCEPT ![p] =
             IF GetUserVote(h[p].userId, h[p].predictionId) # <<>>
             THEN Done(h[p], "AlreadyVoted")
             ELSE [@ EXCEPT !.pc = "tvSelectUser"]]
  /\ UNCHANGED <<now, users, predictions, votes, requests, sent>>

\* a check that only asks for a positive balance
InsufficientPointsIfNone(user, pointsStaked) == user.points <= 0

\* user.points < validatedData.pointsStaked
InsufficientPoints(user, pointsStaked) == user.points < pointsStaked

\* const [user] = await tx.select().from(users)...
VoteTxSelectUser(p) ==
  /\ h[p].pc = "tvSelectUser"
  /\ h' = [h EXCEPT ![p] =
             IF ~h[p].txOpen THEN Done(h[p], "Failed")
             ELSE IF InsufficientPoints(TxUser(p, h[p].userId),
                                        h[p].pointsStaked)
                  THEN Done(h[p], "InsufficientFunds")
                  ELSE [@ EXCEPT !.pc = "tvInsert"]]
  /\ UNCHANGED <<now, users, predictions, votes, requests, sent>>

\* const [newVote] = await tx.insert(votes)...
VoteTxInsert(p) ==
  /\ h[p].pc = "tvInsert"
  /\ h' = [h EXCEPT ![p].txVotes =
               <<NewVote(h[p].userId, h[p].predictionId, h[p].stance,
                         h[p].pointsStaked)>>,
                    ![p].pc = "tvUpdatePoints"]
  /\ UNCHANGED <<now, users, predictions, votes, requests, sent>>

\* await tx.update(users).set({ points: sql`points - staked` })
VoteTxUpdatePoints(p) ==
  /\ h[p].pc = "tvUpdatePoints"
  /\ ~UserLockedByOther(p, h[p].userId)
  /\ h' = [h EXCEPT ![p].txLocks = @ \cup {h[p].userId},
                    ![p].txUsers[h[p].userId] =
                       [TxUser(p, h[p].userId) EXCEPT
                          !.points = @ - h[p].pointsStaked],
                    ![p].pc = "statsSelect"]
  /\ UNCHANGED <<now, users, predictions, votes, requests, sent>>

\* const updatedPrediction = await storage.getPrediction(...)
VoteTxGetPrediction(p) ==
  /\ h[p].pc = "tvGetPrediction"
  /\ h' = [h EXCEPT ![p].updatedPrediction = <<predictions[h[p].predictionId]>>,
                    ![p].pc = "tvCommit"]
  /\ UNCHANGED <<now, users, predictions, votes, requests, sent>>

\* the callback returns: COMMIT, broadcast, 201
VoteTxCommit(p) ==
  /\ h[p].pc = "tvCommit"
  /\ IF h[p].txOpen
     THEN /\ votes' = votes \o h[p].txVotes
          /\ users' = [u \in Users |-> TxUser(p, u)]
          /\ sent' = sent \cup {VoteUpdate(h[p].predictionId,
                                            h[p].updatedPrediction)}
          /\ h' = [h EXCEPT ![p] = Done(h[p], "ok")]
     ELSE /\ h' = [h EXCEPT ![p] = Done(h[p], "Failed")]
          /\ UNCHANGED <<votes, users, sent>>
  /\ UNCHANGED <<now, predictions, requests>>

(* -------- POST /api/votes, the route calling storage.createVote ------- *)
StartVote(p, userId, predictionId, stance, pointsStaked) ==
  /\ Free(p)
  /\ requests < MaxRequests
  /\ requests' = requests + 1
  /\ h' = [h EXCEPT ![p] =
             [Idle EXCEPT !.pc = "lvGetUserVote", !.kind = "vote",
                          !.userId = userId, !.predictionId = predictionId,
                          !.stance = stance, !.pointsStaked = pointsStaked]]
  /\ UNCHANGED <<now, users, predictions, votes, sent>>

\* const existingVote = await storage.getUserVote(...)
VoteGetUserVote(p) ==
  /\ h[p].pc = "lvGetUserVote"
  /\ h' = [h EXCEPT ![p] =
             IF GetUserVote(h[p].userId, h[p].predictionId) # <<>>
             THEN Done(h[p], "AlreadyVoted")
             ELSE [@ EXCEPT !.pc = "lvGetUser"]]
  /\ UNCHANGED <<now, users, predictions, votes, requests, sent>>

\* const user = await storage.getUser(userId)
VoteGetUser(p) ==
  /\ h[p].pc = "lvGetUser"
  /\ h' = [h EXCEPT ![p] =
             IF InsufficientPoints(users[h[p].userId], h[p].pointsStaked)
             THEN Done(h[p], "InsufficientFunds")
             ELSE [@ EXCEPT !.pc = "lvInsert"]]
  /\ UNCHANGED <<now, users, predictions, votes, requests, sent>>

\* createVote: db.insert(votes)
CreateVoteInsert(p) ==
  /\ h[p].pc = "lvInsert"
  /\ votes' = Append(votes, NewVote(h[p].userId, h[p].predictionId,
                                    h[p].stance, h[p].pointsStaked))
  /\ h' = [h EXCEPT ![p].pc = "statsSelect"]
  /\ UNCHANGED <<now, users, predictions, requests, sent>>

\* the debit computed from the committed row without waiting for the
\* transaction that holds the row lock
CreateVoteUpdatePointsWithoutWaiting(p) ==
  /\ h[p].pc = "lvUpdatePoints"
  /\ users' = [users EXCEPT ![h[p].userId].points = @ - h[p].pointsStaked]
  /\ sent' = sent \cup {VoteUpdate(h[p].predictionId, <<>>)}
  /\ h' = [h EXCEPT ![p] = Done(h[p], "ok")]
  /\ UNCHANGED <<now, predictions, votes, requests>>

\* createVote: db.update(users).set({ points: sql`points - staked` }),
\* then the route broadcasts and answers 201
CreateVoteUpdatePoints(p) ==
  /\ h[p].pc = "lvUpdatePoints"
  /\ ~UserLocked(h[p].userId)
  /\ users' = [users EXCEPT ![h[p].userId].points = @ - h[p].pointsStaked]
  /\ sent' = sent \cup {VoteUpdate(h[p].predictionId, <<>>)}
  /\ h' = [h EXCEPT ![p] = Done(h[p], "ok")]
  /\ UNCHANGED <<now, predictions, votes, requests>>


(* ------------------------ POST /api/predictions ---------------------- *)
StartCreate(p, userId, resolutionDate) ==
  /\ Free(p)
  /\ requests < MaxRequests
  /\ Cardinality(DOMAIN predictions) < NumMarkets + 1 + MaxCreated
  /\ requests' = requests + 1
  /\ h' = [h EXCEPT ![p] =
             [Idle EXCEPT !.pc = "cpInsert", !.kind = "create",
                          !.userId = userId,
                          !.resolutionDate = resolutionDate]]
  /\ UNCHANGED <<now, users, predictions, votes, sent>>

\* storage.createPrediction: db.insert(predictions); the new row gets the
\* next unused id; storage.updateUserStats follows
CreatePrediction(p) ==
  /\ h[p].pc = "cpInsert"
  /\ predictions' =
       predictions @@
         (Cardinality(DOMAIN predictions) + 1 :>
            NewPrediction(h[p].userId, h[p].resolutionDate))
  /\ h' = [h EXCEPT ![p].pc = "userStatsSelect"]
  /\ UNCHANGED <<now, users, votes, requests, sent>>


(* ---- POST /api/predictions/:id/resolve, storage.resolvePrediction ---- *)
StartResolve(p, userId, predictionId, resolvedValue) ==
  /\ Free(p)
  /\ requests < MaxRequests
  /\ requests' = requests + 1
  /\ h' = [h EXCEPT ![p] =
             [Idle EXCEPT !.pc = "rsSelect", !.kind = "resolve",
                          !.userId = userId, !.predictionId = predictionId,
                          !.resolvedValue = resolvedValue, !.txOpen = TRUE]]
  /\ UNCHANGED <<now, users, predictions, votes, sent>>

\* the checks without `prediction.userId !== userId`
ResolveCheckAnyCaller(predictionId, userId) ==
  IF predictionId \notin DOMAIN predictions THEN "NotFound"
  ELSE IF predictions[predictionId].resolved THEN "AlreadyResolved"
  ELSE IF predictions[predictionId].resolutionDate > now THEN "TooEarly"
  ELSE "none"

\* the checks without `prediction.resolved`
ResolveCheckUnresolvedOrNot(predictionId, userId) ==
  IF predictionId \notin DOMAIN predictions THEN "NotFound"
  ELSE IF predictions[predictionId].userId # userId THEN "NotOwner"
  ELSE IF predictions[predictionId].resolutionDate > now THEN "TooEarly"
  ELSE "none"

\* the checks with `prediction.resolved` tested before the owner
ResolveCheckResolvedFirst(predictionId, userId) ==
  IF predictionId \notin DOMAIN predictions THEN "NotFound"
  ELSE IF predictions[predictionId].resolved THEN "AlreadyResolved"
  ELSE IF predictions[predictionId].userId # userId THEN "NotOwner"
  ELSE IF predictions[predictionId].resolutionDate > now THEN "TooEarly"
  ELSE "none"

\* 1. Fetch prediction and verify: the error thrown, or "none"
ResolveCheck(predictionId, userId) ==
  IF predictionId \notin DOMAIN predictions THEN "NotFound"
  ELSE IF predictions[predictionId].userId # userId THEN "NotOwner"
  ELSE IF predictions[predictionId].resolved THEN "AlreadyResolved"
  ELSE IF predictions[predictionId].resolutionDate > now THEN "TooEarly"
  ELSE "none"

\* the select and the checks, with the market marked resolved through db
\* before the checks
ResolveSelectMarkingFirst(p) ==
  /\ h[p].pc = "rsSelect"
  /\ predictions' =
       [m \in DOMAIN predictions |->
          IF m = h[p].predictionId
          THEN [predictions[m] EXCEPT
                  !.resolved = TRUE,
                  !.resolvedValue = BoolValue(h[p].resolvedValue)]
          ELSE predictions[m]]
  /\ h' = [h EXCEPT ![p] =
             IF ResolveCheck(h[p].predictionId, h[p].userId) # "none"
             THEN Done(h[p], ResolveCheck(h[p].predictionId, h[p].userId))
             ELSE [@ EXCEPT !.pc = "rsUpdate"]]
  /\ UNCHANGED <<now, users, votes, requests, sent>>

\* const [prediction] = await tx.select().from(predictions)... and the checks
ResolveSelect(p) ==
  /\ h[p].pc = "rsSelect"
  /\ h' = [h EXCEPT ![p] =
             IF ResolveCheck(h[p].predictionId, h[p].userId) # "none"
             THEN Done(h[p], ResolveCheck(h[p].predictionId, h[p].userId))
             ELSE [@ EXCEPT !.pc = "rsUpdate"]]
  /\ UNCHANGED <<now, users, predictions, votes, requests, sent>>

\* 2. Update prediction: tx.update(predictions).set({ resolved: true, ... })
\* takes the row lock, after waiting for a transaction that holds it
ResolveUpdate(p) ==
  /\ h[p].pc = "rsUpdate"
  /\ ~PredictionLockedByOther(p, h[p].predictionId)
  /\ h' = [h EXCEPT ![p].txPrediction = TRUE, ![p].pc = "rsVotes"]
  /\ UNCHANGED <<now, users, predictions, votes, requests, sent>>

Winners(allVotes, winningStance) == VotesWith(allVotes, winningStance)

Losers(allVotes, winningStance) == VotesWith(allVotes, ~winningStance)

\* what one winning vote's owner is credited: stake plus winnings
Payout(winner, allVotes, winningStance) ==
  winner.pointsStaked
    + Winnings(winner.pointsStaked, Staked(Winners(allVotes, winningStance)),
               Staked(Losers(allVotes, winningStance)))

\* step 3 with step 5 skipped when nobody won
ResolveVotesStatsForWinnersOnly(p) ==
  /\ h[p].pc = "rsVotes"
  /\ LET allVotes == VotesOf(votes, h[p].predictionId)
     IN  h' = [h EXCEPT ![p].allVotes = allVotes, ![p].i = 1,
                        ![p].pc =
                           IF Len(Winners(allVotes, h[p].resolvedValue)) > 0
                           THEN "rsCredit"
                           ELSE "rsCommit"]
  /\ UNCHANGED <<now, users, predictions, votes, requests, sent>>

\* 3. Get all votes: tx.select().from(votes), then the partition
ResolveVotes(p) ==
  /\ h[p].pc = "rsVotes"
  /\ LET allVotes == VotesOf(votes, h[p].predictionId)
     IN  h' = [h EXCEPT ![p].allVotes = allVotes, ![p].i = 1,
                        ![p].pc =
                           IF Len(Winners(allVotes, h[p].resolvedValue)) > 0
                           THEN "rsCredit"
                           ELSE IF Len(allVotes) > 0 THEN "rsStats"
                                ELSE "rsCommit"]
  /\ UNCHANGED <<now, users, predictions, votes, requests, sent>>

\* the credit issued through db instead of tx: it commits on its own
ResolveCreditThroughDb(p) ==
  /\ h[p].pc = "rsCredit"
  /\ LET winners == Winners(h[p].allVotes, h[p].resolvedValue)
         winner == winners[h[p].i]
     IN  /\ ~UserLocked(winner.userId)
         /\ users' = [users EXCEPT ![winner.userId].points =
                        @ + Payout(winner, h[p].allVotes, h[p].resolvedValue)]
         /\ h' = [h EXCEPT
               ![p].i = IF h[p].i < Len(winners) THEN h[p].i + 1 ELSE 1,
               ![p].pc = IF h[p].i < Len(winners) THEN "rsCredit"
                         ELSE "rsStats"]
  /\ UNCHANGED <<now, predictions, votes, requests, sent>>

\* 4. one iteration of `for (const winner of winners)`: tx.update(users)
ResolveCredit(p) ==
  /\ h[p].pc = "rsCredit"
  /\ LET winners == Winners(h[p].allVotes, h[p].resolvedValue)
         winner == winners[h[p].i]
     IN  /\ ~UserLockedByOther(p, winner.userId)
         /\ h' = [h EXCEPT
               ![p].txLocks = @ \cup {winner.userId},
               ![p].txUsers[winner.userId] =
                  [TxUser(p, winner.userId) EXCEPT
                     !.points = @ + Payout(winner, h[p].allVotes,
                                           h[p].resolvedValue)],
               ![p].i = IF h[p].i < Len(winners) THEN h[p].i + 1 ELSE 1,
               ![p].pc = IF h[p].i < Len(winners) THEN "rsCredit"
                         ELSE "rsStats"]
  /\ UNCHANGED <<now, users, predictions, votes, requests, sent>>

\* step 5's update counting a vote only when it was correct
StatsUpdatedWhenCorrect(row, correct) ==
  [row EXCEPT
     !.totalPredictions = row.totalPredictions + (IF correct THEN 1 ELSE 0),
     !.correctPredictions = row.correctPredictions + (IF correct THEN 1 ELSE 0),
     !.accuracyScore = IF correct THEN 100 ELSE row.accuracyScore]

\* the users row after step 5's update for one vote; the accuracy is
\* computed by the database on integer columns and an integer parameter
StatsUpdated(row, correct) ==
  [row EXCEPT
     !.totalPredictions = row.totalPredictions + 1,
     !.correctPredictions = row.correctPredictions + (IF correct THEN 1 ELSE 0),
     !.accuracyScore =
        ((row.correctPredictions + (IF correct THEN 1 ELSE 0))
           \div (row.totalPredictions + 1)) * 100]

\* 5. one iteration of `for (const vote of allVotes)`: tx.update(users)
ResolveStats(p) ==
  /\ h[p].pc = "rsStats"
  /\ LET vote == h[p].allVotes[h[p].i]
     IN  /\ ~UserLockedByOther(p, vote.userId)
         /\ h' = [h EXCEPT
               ![p].txLocks = @ \cup {vote.userId},
               ![p].txUsers[vote.userId] =
                  StatsUpdated(TxUser(p, vote.userId),
                               vote.stance = h[p].resolvedValue),
               ![p].i = IF h[p].i < Len(h[p].allVotes) THEN h[p].i + 1 ELSE 0,
               ![p].pc = IF h[p].i < Len(h[p].allVotes) THEN "rsStats"
                         ELSE "rsCommit"]
  /\ UNCHANGED <<now, users, predictions, votes, requests, sent>>

\* the commit of a settlement that also deletes the settled votes
ResolveCommitDeletingVotes(p) ==
  /\ h[p].pc = "rsCommit"
  /\ predictions' =
       [predictions EXCEPT ![h[p].predictionId] =
          [@ EXCEPT !.resolved = TRUE,
                    !.resolvedValue = BoolValue(h[p].resolvedValue)]]
  /\ users' = [u \in Users |-> TxUser(p, u)]
  /\ votes' = SelectSeq(votes, LAMBDA v : v.predictionId # h[p].predictionId)
  /\ h' = [h EXCEPT ![p] = Done(h[p], "ok")]
  /\ UNCHANGED <<now, requests, sent>>

\* the commit of a settlement that also resets the market's aggregates
ResolveCommitResettingStats(p) ==
  /\ h[p].pc = "rsCommit"
  /\ predictions' =
       [predictions EXCEPT ![h[p].predictionId] =
          [@ EXCEPT !.resolved = TRUE,
                    !.resolvedValue = BoolValue(h[p].resolvedValue),
                    !.totalStakes = 0, !.totalPoints = 0,
                    !.yesVotes = 0, !.noVotes = 0,
                    !.yesPoints = 0, !.noPoints = 0]]
  /\ users' = [u \in Users |-> TxUser(p, u)]
  /\ h' = [h EXCEPT ![p] = Done(h[p], "ok")]
  /\ UNCHANGED <<now, votes, requests, sent>>

\* the callback returns: COMMIT, and the route answers with the row
ResolveCommit(p) ==
  /\ h[p].pc = "rsCommit"
  /\ predictions' =
       [predictions EXCEPT ![h[p].predictionId] =
          [@ EXCEPT !.resolved = TRUE,
                    !.resolvedValue = BoolValue(h[p].resolvedValue)]]
  /\ users' = [u \in Users |-> TxUser(p, u)]
  /\ h' = [h EXCEPT ![p] = Done(h[p], "ok")]
  /\ UNCHANGED <<now, votes, requests, sent>>

(* --------------------------- specification ---------------------------- *)
Next ==
  \/ Tick
  \/ \E p \in Procs :
       \/ TxAbort(p)
       \/ \E u \in Callers, m \in Markets, s \in BOOLEAN, a \in StakeChoices :
            \/ StartVoteTx(p, u, m, s, a)
            \/ StartVote(p, u, m, s, a)
       \/ \E u \in Callers, m \in Markets \cup {MissingId}, v \in BOOLEAN :
            StartResolve(p, u, m, v)
       \/ UpdatePredictionStatsSelect(p)
       \/ UpdatePredictionStatsUpdate(p)
       \/ UpdateUserStatsSelect(p)
       \/ UpdateUserStatsUpdate(p)
       \/ VoteTxGetUserVote(p)
       \/ VoteTxSelectUser(p)
       \/ VoteTxInsert(p)
       \/ VoteTxUpdatePoints(p)
       \/ VoteTxGetPrediction(p)
       \/ VoteTxCommit(p)
       \/ VoteGetUserVote(p)
       \/ VoteGetUser(p)
       \/ CreateVoteInsert(p)
       \/ CreateVoteUpdatePoints(p)
       \/ ResolveSelect(p)
       \/ ResolveUpdate(p)
       \/ ResolveVotes(p)
       \/ ResolveCredit(p)
       \/ ResolveStats(p)
       \/ ResolveCommit(p)

Spec == Init /\ [][Next]_vars


(* ---------------- settlement alone, over placed votes ----------------- *)
\* The votes on market 1 after some users staked one after the other
\* through POST /api/votes: each user has no vote or one vote, the stake is
\* debited, the aggregates are recomputed.  The resolution date has passed.
PlacedVotes(choice) ==
  LET row(u) == IF choice[u].voted
                THEN <<NewVote(u, 1, choice[u].stance, choice[u].pointsStaked)>>
                ELSE <<>>
      RECURSIVE upTo(_)
      upTo(u) == IF u = 0 THEN <<>> ELSE upTo(u - 1) \o row(u)
  IN  upTo(NumUsers)

VoteChoices ==
  [voted : {TRUE}, stance : BOOLEAN, pointsStaked : SettleStakes]
    \cup {[voted |-> FALSE, stance |-> FALSE, pointsStaked |-> 0]}

InitSettle ==
  /\ now = MaxTime
  /\ \E choice \in [Users -> VoteChoices] :
       /\ votes = PlacedVotes(choice)
       /\ users = [u \in Users |->
                     [Registered(Cardinality({m \in Markets : OwnerOf(m) = u}))
                        EXCEPT !.points = @ - choice[u].pointsStaked]]
  /\ predictions =
       [m \in Markets |->
          LET stats == VoteStats(votes, m)
          IN  [NewPrediction(OwnerOf(m), MaxTime) EXCEPT
                 !.totalStakes = stats.totalStakes,
                 !.totalPoints = stats.totalPoints,
                 !.yesVotes = stats.yesVotes, !.noVotes = stats.noVotes,
                 !.yesPoints = stats.yesPoints, !.noPoints = stats.noPoints]]
  /\ h = [p \in Procs |-> Idle]
  /\ requests = 0
  /\ sent = {}

\* resolve requests served one after the other
NextSettle ==
  \E p \in Procs :
    \/ \E u \in Callers, m \in Markets \cup {MissingId}, v \in BOOLEAN :
         /\ \A q \in Procs : Free(q)
         /\ StartResolve(p, u, m, v)
    \/ ResolveSelect(p)
    \/ ResolveUpdate(p)
    \/ ResolveVotes(p)
    \/ ResolveCredit(p)
    \/ ResolveStats(p)
    \/ ResolveCommit(p)

SpecSettle == InitSettle /\ [][NextSettle]_vars


(* ------- creation and settlement, requests one after the other ------- *)
\* the markets of this examination: those of Init and one created later,
\* by the same rule of ownership
LifetimeMarkets == 1..(NumMarkets + 1)

\* the users that have staked
LifetimeVoters == NumCallers..NumUsers

\* the choices of one user: for each market no vote, or a vote with a
\* stance and a stake
LifetimeChoices == [LifetimeMarkets -> [voted : {TRUE}, stance : BOOLEAN,
                                        pointsStaked : LifetimeStakes]
                                       \cup {[voted |-> FALSE, stance |-> FALSE,
                                              pointsStaked |-> 0]}]

\* the votes table after the users staked one after the other
LifetimeVotes(choice) ==
  LET row(u, m) == IF choice[u][m].voted
                   THEN <<NewVote(u, m, choice[u][m].stance,
                                  choice[u][m].pointsStaked)>>
                   ELSE <<>>
      RECURSIVE ofUser(_, _)
      ofUser(u, m) == IF m = 0 THEN <<>> ELSE ofUser(u, m - 1) \o row(u, m)
      RECURSIVE upTo(_)
      upTo(u) == IF u = 0 THEN <<>>
                 ELSE upTo(u - 1) \o ofUser(u, NumMarkets + 1)
  IN  upTo(NumUsers)

\* The markets were created through POST /api/predictions and the votes
\* placed through POST /api/votes, one request after the other; the
\* resolution dates have passed.
InitLifetime ==
  /\ now = MaxTime
  /\ \E choice \in [Users -> LifetimeChoices] :
       /\ \A u \in Users \ LifetimeVoters, m \in LifetimeMarkets :
            ~choice[u][m].voted
       /\ votes = LifetimeVotes(choice)
       /\ users = [u \in Users |->
                     [Registered(Cardinality({m \in LifetimeMarkets :
                                                OwnerOf(m) = u}))
                        EXCEPT !.points =
                          @ - SumSeq([m \in 1..(NumMarkets + 1) |->
                                        choice[u][m].pointsStaked])]]
  /\ predictions =
       [m \in LifetimeMarkets |->
          LET stats == VoteStats(votes, m)
          IN  [NewPrediction(OwnerOf(m), MaxTime) EXCEPT
                 !.totalStakes = stats.totalStakes,
                 !.totalPoints = stats.totalPoints,
                 !.yesVotes = stats.yesVotes, !.noVotes = stats.noVotes,
                 !.yesPoints = stats.yesPoints, !.noPoints = stats.noPoints]]
  /\ h = [p \in Procs |-> Idle]
  /\ requests = 0
  /\ sent = {}

NextLifetime ==
  \E p \in Procs :
    \/ /\ \A q \in Procs : Free(q)
       /\ \/ \E u \in Users : StartCreate(p, u, MaxTime)
          \/ \E u \in Callers, m \in DOMAIN predictions \cup {MissingId},
                v \in BOOLEAN : StartResolve(p, u, m, v)
    \/ CreatePrediction(p)
    \/ UpdateUserStatsSelect(p)
    \/ UpdateUserStatsUpdate(p)
    \/ ResolveSelect(p)
    \/ ResolveUpdate(p)
    \/ ResolveVotes(p)
    \/ ResolveCredit(p)
    \/ ResolveStats(p)
    \/ ResolveCommit(p)

SpecLifetime == InitLifetime /\ [][NextLifetime]_vars


(* ------- POST /api/votes through createVote, and the broadcast -------- *)
\* createVote's last statement, then client.send(message) raises: the
\* broadcast runs inside the route's try block, before res.status(201), and
\* the catch answers 500 "Failed to create vote"
CreateVoteBroadcastFails(p) ==
  /\ h[p].pc = "lvUpdatePoints"
  /\ ~UserLocked(h[p].userId)
  /\ users' = [users EXCEPT ![h[p].userId].points = @ - h[p].pointsStaked]
  /\ h' = [h EXCEPT ![p] = Done(h[p], "Failed")]
  /\ UNCHANGED <<now, predictions, votes, requests, sent>>

\* vote requests served one after the other; a send may raise
NextNotify ==
  \E p \in Procs :
    \/ \E u \in Callers, m \in Markets, s \in BOOLEAN, a \in StakeChoices :
         /\ \A q \in Procs : Free(q)
         /\ StartVote(p, u, m, s, a)
    \/ VoteGetUserVote(p)
    \/ VoteGetUser(p)
    \/ CreateVoteInsert(p)
    \/ UpdatePredictionStatsSelect(p)
    \/ UpdatePredictionStatsUpdate(p)
    \/ CreateVoteUpdatePoints(p)
    \/ CreateVoteBroadcastFails(p)

SpecNotify == Init /\ [][NextNotify]_vars


(* -------- POST /api/votes with db.transaction, run to its end --------- *)
\* a statement of handler p's vote request
VoteTxStep(p) ==
  \/ VoteTxGetUserVote(p)
  \/ VoteTxSelectUser(p)
  \/ VoteTxInsert(p)
  \/ VoteTxUpdatePoints(p)
  \/ UpdatePredictionStatsSelect(p)
  \/ UpdatePredictionStatsUpdate(p)
  \/ UpdateUserStatsSelect(p)
  \/ UpdateUserStatsUpdate(p)
  \/ VoteTxGetPrediction(p)
  \/ VoteTxCommit(p)

NextVoteTx ==
  \E p \in Procs :
    \/ TxAbort(p)
    \/ \E u \in Callers, m \in Markets, s \in BOOLEAN, a \in StakeChoices :
         StartVoteTx(p, u, m, s, a)
    \/ VoteTxStep(p)

\* The event loop resumes every handler whose awaited statement has
\* completed, and the database runs a statement as soon as no lock stops
\* it; nothing obliges the database to end a transaction.
SpecVoteTx ==
  Init /\ [][NextVoteTx]_vars /\ \A p \in Procs : WF_vars(VoteTxStep(p))


(* ------- a settlement of one market and stakes on another market ----- *)
\* the markets that are open for stakes while market 1 is settled
OpenMarkets == LifetimeMarkets \ Markets

\* votes were placed on the markets of Init only; the resolution dates
\* have passed
InitCross ==
  /\ InitLifetime
  /\ \A k \in 1..Len(votes) : votes[k].predictionId \in Markets

\* resolve requests for the markets of Init, one after the other, while
\* vote requests for the open markets are served
NextCross ==
  \E p \in Procs :
    \/ TxAbort(p)
    \/ \E u \in Callers, m \in OpenMarkets, s \in BOOLEAN, a \in StakeChoices :
         StartVote(p, u, m, s, a)
    \/ \E u \in Callers, m \in Markets, v \in BOOLEAN :
         /\ \A q \in Procs : h[q].kind # "resolve"
         /\ StartResolve(p, u, m, v)
    \/ VoteGetUserVote(p)
    \/ VoteGetUser(p)
    \/ CreateVoteInsert(p)
    \/ UpdatePredictionStatsSelect(p)
    \/ UpdatePredictionStatsUpdate(p)
    \/ CreateVoteUpdatePoints(p)
    \/ ResolveSelect(p)
    \/ ResolveUpdate(p)
    \/ ResolveVotes(p)
    \/ ResolveCredit(p)
    \/ ResolveStats(p)
    \/ ResolveCommit(p)

SpecCross == InitCross /\ [][NextCross]_vars


(* ------------------------------ properties ---------------------------- *)
\* handler p serves a resolve request for market m
Resolving(p, m) == h[p].kind = "resolve" /\ h[p].predictionId = m

\* this step is a step of handler p
Moves(p) == h'[p] # h[p]

\* this step commits the first settlement of market m
Settles(m) == ~predictions[m].resolved /\ predictions'[m].resolved

\* C1: in every committed state every user's point balance is >= 0.
C1_BalanceNonNegative == \A u \in Users : users[u].points >= 0

\* C2: in every committed state at most one Vote exists per (userId,
\* marketId) pair: of concurrent placeStake calls by one user on one market
\* at most one succeeds.
C2_OneVotePerUserAndMarket ==
  \A u \in Users, m \in Markets : Len(GetUserVote(u, m)) <= 1

\* C3: resolve calls on one market are mutually exclusive: a voter with one
\* vote on market m whose lifetime statistics already count a settled vote
\* is not credited, and their statistics are not incremented, by a step of
\* another resolve call on m once m is resolved.
C3_ResolveMutuallyExclusive ==
  [][\A p \in Procs, m \in Markets, u \in Users :
       /\ Resolving(p, m) /\ Moves(p) /\ predictions[m].resolved
       /\ Len(GetUserVote(u, m)) = 1 /\ users[u].totalPredictions > 0
       /\ \A k \in 1..Len(votes) : votes[k].pointsStaked > 0
       => users'[u] = users[u]]_vars

\* C4: once placeStake calls of different users on market m, each with a
\* positive stake, have completed, the market's stakeCount, totalPoints,
\* yesCount, noCount, yesPoints, noPoints equal the values recomputed from
\* the committed Votes on m.
C4_AggregatesMatchVotes ==
  \A m \in Markets :
    /\ \A p \in Procs : Free(p)
    /\ \A u \in Users : Len(GetUserVote(u, m)) <= 1
    /\ \A k \in 1..Len(votes) : votes[k].pointsStaked > 0
    => StatsOf(predictions[m]) = VoteStats(votes, m)

\* C5: no Vote is ever inserted for a market whose resolution has
\* committed.
C5_NoVoteOnResolvedMarket ==
  [][\A m \in Markets :
       predictions[m].resolved => VotesOf(votes', m) = VotesOf(votes, m)]_vars

\* C6: resolved never goes back to false, outcome is non-null exactly when
\* resolved is true, and outcome is never rewritten once set.
C6_ResolvedOnceOutcomeFinal ==
  [][\A m \in Markets :
       /\ predictions'[m].resolved <=> predictions'[m].resolvedValue # "null"
       /\ predictions[m].resolved
            => /\ predictions'[m].resolved
               /\ predictions'[m].resolvedValue = predictions[m].resolvedValue]_vars

\* C7: a market becomes resolved, and a resolve call changes balances or
\* the market, only in a step of a resolve call whose caller is the
\* market's owner and whose resolution date is not after the current time.
C7_OnlyOwnerAfterDeadline ==
  [][/\ \A m \in Markets :
          Settles(m) => \E p \in Procs : Resolving(p, m) /\ Moves(p)
     /\ \A p \in Procs, m \in Markets :
          Resolving(p, m) /\ Moves(p)
            /\ (users' # users \/ predictions' # predictions)
          => /\ h[p].userId = predictions[m].userId
             /\ predictions[m].resolutionDate <= now]_vars

\* C7 witness: a market is resolved and a resolve call was refused as
\* not the owner's
C7_Witness ==
  /\ \E m \in Markets : predictions[m].resolved
  /\ \E p \in Procs : h[p].res = "NotOwner"

\* C8: a resolve call by the owner whose first statement runs after a
\* resolve of the market has committed ends in that statement with
\* AlreadyResolved (or with the generic failure when the database ended its
\* transaction first), whatever outcome it carries, and changes no balance,
\* no lifetime statistics, no vote and not the market.
C8_SecondResolveRejected ==
  [][\A p \in Procs, m \in Markets :
       /\ Resolving(p, m) /\ Moves(p)
       /\ h[p].pc = "rsSelect"
       /\ h[p].userId = predictions[m].userId
       /\ predictions[m].resolved
       => /\ h'[p].pc = "idle"
          /\ h'[p].res \in {"AlreadyResolved", "Failed"}
          /\ UNCHANGED <<users, predictions, votes>>]_vars

\* C8 witness: a market is resolved, votes were settled, and a later
\* resolve call was answered AlreadyResolved
C8_Witness ==
  /\ \E m \in Markets : predictions[m].resolved /\ VotesOf(votes, m) # <<>>
  /\ \E p \in Procs : h[p].res = "AlreadyResolved"

\* what the owner of winning votes is due by exact arithmetic: for each of
\* the user's winning votes the stake plus floor(stake * losers / winners)
ExactPayouts(userId, allVotes, winningStance) ==
  LET mine == SelectSeq(Winners(allVotes, winningStance),
                        LAMBDA v : v.userId = userId)
      w == Staked(Winners(allVotes, winningStance))
      l == Staked(Losers(allVotes, winningStance))
  IN  SumSeq([k \in 1..Len(mine) |->
                mine[k].pointsStaked + ExactFloor(mine[k].pointsStaked, w, l)])

\* C9: when a resolve with totalWinnerPoints > 0 commits, each winning
\* Vote's owner is credited exactly pointsStaked + floor(pointsStaked *
\* totalLoserPoints / totalWinnerPoints) and no loser's balance changes.
C9_PayoutIsExactFloor ==
  [][\A m \in Markets :
       Settles(m) /\ Staked(Winners(VotesOf(votes, m),
                                    predictions'[m].resolvedValue = "true")) > 0
       => \A u \in Users :
            users'[u].points - users[u].points =
              ExactPayouts(u, VotesOf(votes, m),
                           predictions'[m].resolvedValue = "true")]_vars

\* C10: the sum of the payouts a resolution credits to its winners is
\* <= totalLoserPoints + totalWinnerPoints, the points staked in the votes
\* it settles.
C10_PayoutsWithinStakes ==
  [][\A p \in Procs, m \in Markets :
       /\ Resolving(p, m) /\ Moves(p) /\ Settles(m)
       /\ Len(Winners(h[p].allVotes, h[p].resolvedValue)) > 0
       /\ \A k \in 1..Len(h[p].allVotes) :
            h[p].allVotes[k].stance = h[p].resolvedValue
              => h[p].allVotes[k].pointsStaked > 0
       => SumSeq([u \in 1..NumUsers |-> users'[u].points - users[u].points])
            <= Staked(h[p].allVotes)]_vars

\* C11: a placeStake call that loads a balance smaller than its stake ends
\* there with InsufficientFunds (or with the generic failure when the
\* database ended its transaction first): no Vote is inserted, and no
\* balance and no market aggregate changes.
C11_InsufficientFundsRejected ==
  [][\A p \in Procs :
       /\ Moves(p)
       /\ h[p].pc \in {"tvSelectUser", "lvGetUser"}
       /\ h[p].pointsStaked > users[h[p].userId].points
       => /\ h'[p].pc = "idle"
          /\ \/ h'[p].res = "InsufficientFunds"
             \/ h[p].kind = "voteTx" /\ h'[p].res = "Failed"
          /\ UNCHANGED <<users, predictions, votes, sent>>]_vars

\* C11 witness: a user whose balance no longer covers 600 was answered
\* InsufficientFunds
C11_Witness ==
  \E p \in Procs, u \in Users :
    /\ h[p].res = "InsufficientFunds"
    /\ users[u].points >= 0 /\ users[u].points < 600

\* C12: every stored Vote has pointsStaked >= 1: a stake <= 0 is rejected
\* before anything is written.
C12_StakesArePositive ==
  \A k \in 1..Len(votes) : votes[k].pointsStaked >= 1

\* C13: placeStake is atomic: while no market is resolved and all stakes
\* are positive, every committed state shows each user's balance debited by
\* exactly the stakes of the user's committed Votes (no Vote without its
\* debit, no debit without its Vote).
C13_PlaceStakeAtomic ==
  /\ \A m \in Markets : ~predictions[m].resolved
  /\ \A k \in 1..Len(votes) : votes[k].pointsStaked > 0
  => \A u \in Users :
       users[u].points =
         StartPoints - Staked(SelectSeq(votes, LAMBDA v : v.userId = u))

\* the users row of userId after a complete settlement of allVotes: every
\* winning vote credited, every vote counted
Settled(row, userId, allVotes, winningStance) ==
  LET mine == SelectSeq(allVotes, LAMBDA v : v.userId = userId)
      wins == Winners(mine, winningStance)
      total == row.totalPredictions + Len(mine)
      correct == row.correctPredictions + Len(wins)
  IN  [points |-> row.points
                    + SumSeq([k \in 1..Len(wins) |->
                                Payout(wins[k], allVotes, winningStance)]),
       totalPredictions |-> total,
       correctPredictions |-> correct,
       accuracyScore |-> IF mine = <<>> THEN row.accuracyScore
                         ELSE (correct \div total) * 100]

\* C14: resolve is atomic: a step of a resolve call either leaves every
\* users row and the market as committed, or it commits the whole
\* settlement at once: resolved and outcome set, every winner of the call's
\* votes credited, every voter's statistics updated.
C14_ResolveAtomic ==
  [][\A p \in Procs, m \in Markets :
       Resolving(p, m) /\ Moves(p)
       => \/ UNCHANGED <<users, predictions>>
          \/ /\ predictions'[m].resolved
             /\ predictions'[m].resolvedValue = BoolValue(h[p].resolvedValue)
             /\ \A u \in Users :
                  users'[u] = Settled(users[u], u, h[p].allVotes,
                                      h[p].resolvedValue)]_vars

\* C14 witness: a market with two or more votes is resolved and a winner's
\* statistics count the win
C14_Witness ==
  \E m \in Markets, u \in Users :
    /\ predictions[m].resolved
    /\ Len(VotesOf(votes, m)) >= 2
    /\ users[u].correctPredictions > 0

\* the votes of userId among rows
VotesBy(rows, userId) == SelectSeq(rows, LAMBDA v : v.userId = userId)

\* C15: when a resolve of market m commits, each user's
\* lifetimePredictionsMade grows by one for every Vote the user has on m and
\* lifetimeCorrect by one for every such Vote whose stance is the outcome;
\* users without a Vote on m keep both counters.
C15_CountersPerVote ==
  [][\A m \in DOMAIN predictions :
       Settles(m)
       => \A u \in Users :
            LET mine == VotesBy(VotesOf(votes, m), u)
                outcome == predictions'[m].resolvedValue = "true"
            IN  /\ users'[u].totalPredictions =
                     users[u].totalPredictions + Len(mine)
                /\ users'[u].correctPredictions =
                     users[u].correctPredictions
                       + Len(VotesWith(mine, outcome))]_vars

\* C15 witness: both markets are resolved and a user who created none has
\* lost one vote and won the other
C15_Witness ==
  /\ \A m \in LifetimeMarkets : predictions[m].resolved
  /\ \E u \in Users :
       /\ PredictionsCreatedBy(u) = 0
       /\ users[u].totalPredictions = 2
       /\ users[u].correctPredictions = 1

\* C16: in every committed state every user has
\* 0 <= lifetimeCorrect <= lifetimePredictionsMade.
C16_CorrectWithinMade ==
  \A u \in Users :
    /\ 0 <= users[u].correctPredictions
    /\ users[u].correctPredictions <= users[u].totalPredictions

\* C17: a user's lifetimePredictionsMade and lifetimeCorrect change only in
\* the step that commits a resolve of a market the user voted on; creating
\* a market changes no field of a users row.
C17_CountersChangedByResolveOnly ==
  [][\A u \in Users :
       \/ /\ users'[u].totalPredictions = users[u].totalPredictions
          /\ users'[u].correctPredictions = users[u].correctPredictions
       \/ \E m \in DOMAIN predictions :
            Settles(m) /\ VotesBy(VotesOf(votes, m), u) # <<>>]_vars

\* C18: after a resolve of market m commits, the accuracyPercent of each
\* voter who created no market is lifetimeCorrect / lifetimePredictionsMade
\* * 100 of the updated counters, to within the rounding of the stored
\* value (less than one point).
C18_AccuracyFromCounters ==
  [][\A m \in DOMAIN predictions :
       Settles(m)
       => \A u \in Users :
            VotesBy(VotesOf(votes, m), u) # <<>> /\ PredictionsCreatedBy(u) = 0
            => LET d == users'[u].accuracyScore * users'[u].totalPredictions
                          - 100 * users'[u].correctPredictions
               IN  /\ d < users'[u].totalPredictions
                   /\ -d < users'[u].totalPredictions]_vars

C20_ResolveAnnounced ==
  \A m \in Markets :
    predictions[m].resolved /\ (\A p \in Procs : ~Resolving(p, m))
    => \E e \in sent :
         /\ e.predictionId = m
         /\ e.prediction # <<>>
         /\ e.prediction[1].resolved

\* C21: the vote_update message of a successful placeStake carries the
\* market's row with the aggregates of the committed votes, the stake just
\* placed included; a rejected placeStake sends no message.
C21_SnapshotAfterCommit ==
  [][/\ \A e \in sent' \ sent :
          /\ e.prediction # <<>>
          /\ StatsOf(e.prediction[1]) = VoteStats(votes', e.predictionId)
     /\ \A p \in Procs :
          Moves(p) /\ h'[p].res \notin {"none", "ok"} => sent' = sent]_vars

\* C22: when the broadcast after a committed placeStake raises, the Vote
\* and the debit stay committed and the caller is answered that the stake
\* succeeded: the step that commits the debit of a placed Vote answers ok.
C22_NotifyFailureNotReported ==
  [][\A p \in Procs :
       h[p].kind = "vote" /\ h[p].pc = "lvUpdatePoints" /\ Moves(p)
         => /\ votes' = votes
            /\ users'[h[p].userId].points
                 = users[h[p].userId].points - h[p].pointsStaked
            /\ h'[p].res = "ok"]_vars

\* C23: a committed Vote is never changed and never deleted: every step
\* leaves the rows of table votes as they are and at most adds rows.
C23_VotesOnlyGrow ==
  [][/\ Len(votes') >= Len(votes)
     /\ \A k \in 1..Len(votes) : votes'[k] = votes[k]]_vars

\* votes were placed, the aggregates recomputed and the market resolved
C23_Witness ==
  \E m \in Markets :
    /\ predictions[m].resolved
    /\ Len(VotesOf(votes, m)) >= 2
    /\ predictions[m].totalStakes >= 2

\* C24: when a market is resolved with totalWinnerPoints = totalLoserPoints
\* and every voter staked the same amount s, each winner is credited a
\* payout p with 2*s - 1 <= p <= 2*s.
C24_EqualStakesPayout ==
  [][\A p \in Procs, m \in Markets :
       LET allVotes == VotesOf(votes, m)
           winningStance == h[p].resolvedValue
       IN  /\ Resolving(p, m) /\ Moves(p) /\ Settles(m)
           /\ \A q \in Procs \ {p} : Free(q)
           /\ h[p].allVotes = allVotes
           /\ Len(allVotes) > 0
           /\ Staked(Winners(allVotes, winningStance))
                = Staked(Losers(allVotes, winningStance))
           /\ \A k \in 1..Len(allVotes) :
                /\ allVotes[k].pointsStaked = allVotes[1].pointsStaked
                /\ Len(VotesBy(allVotes, allVotes[k].userId)) = 1
           => \A k \in 1..Len(allVotes) :
                allVotes[k].stance = winningStance
                  => LET u == allVotes[k].userId
                         paid == users'[u].points - users[u].points
                     IN  /\ 2 * allVotes[k].pointsStaked - 1 <= paid
                         /\ paid <= 2 * allVotes[k].pointsStaked]_vars

\* C25: a resolve of a market whose votes are all on the losing side
\* changes no balance, marks the market resolved and adds one to the
\* totalPredictions of every voter, for each vote.
C25_NoWinners ==
  [][\A m \in Markets :
       LET allVotes == VotesOf(votes, m)
       IN  /\ Settles(m)
           /\ Len(allVotes) > 0
           /\ Winners(allVotes, predictions'[m].resolvedValue = "true") = <<>>
           => /\ predictions'[m].resolved
              /\ \A u \in Users :
                   /\ users'[u].points = users[u].points
                   /\ users'[u].totalPredictions
                        = users[u].totalPredictions
                            + Len(VotesBy(allVotes, u))]_vars

\* a market resolved against all its voters, who have been counted
C25_Witness ==
  \E m \in Markets :
    /\ predictions[m].resolved
    /\ Len(VotesOf(votes, m)) >= 2
    /\ Winners(VotesOf(votes, m), predictions[m].resolvedValue = "true") = <<>>
    /\ \A k \in 1..Len(votes) :
         users[votes[k].userId].totalPredictions
           > PredictionsCreatedBy(votes[k].userId)

\* C26: resolve tests its preconditions in the order NotFound, NotOwner,
\* AlreadyResolved, TooEarly: the call's first statement answers the first
\* of them that fails, so a non-owner gets NotOwner on a resolved market
\* and the owner gets AlreadyResolved on it whatever the deadline.
C26_PreconditionOrder ==
  [][\A p \in Procs :
       /\ h[p].kind = "resolve"
       /\ h[p].pc = "rsSelect"
       /\ Moves(p)
       /\ h'[p].res # "Failed"
       => LET m == h[p].predictionId
              u == h[p].userId
          IN  h'[p].res =
                IF m \notin DOMAIN predictions THEN "NotFound"
                ELSE IF predictions[m].userId # u THEN "NotOwner"
                ELSE IF predictions[m].resolved THEN "AlreadyResolved"
                ELSE IF predictions[m].resolutionDate > now THEN "TooEarly"
                ELSE "none"]_vars

\* on a resolved market one caller was answered NotOwner and the owner
\* AlreadyResolved
C26_Witness ==
  /\ \E m \in Markets : predictions[m].resolved
  /\ \E p \in Procs : h[p].res = "NotOwner"
  /\ \E p \in Procs : h[p].res = "AlreadyResolved"

\* C27: a resolve leaves the market's aggregates (totalStakes, totalPoints,
\* yesVotes, noVotes, yesPoints, noPoints) as they were: no step of a
\* resolve handler changes them.
C27_ResolveKeepsAggregates ==
  [][\A p \in Procs, m \in Markets :
       Resolving(p, m) /\ Moves(p)
         => StatsOf(predictions'[m]) = StatsOf(predictions[m])]_vars

\* a resolved market that still shows the aggregates of its votes
C27_Witness ==
  \E m \in Markets :
    /\ predictions[m].resolved
    /\ predictions[m].totalPoints > 0
    /\ StatsOf(predictions[m]) = VoteStats(votes, m)

\* C28: every placeStake call eventually completes, with a committed Vote
\* or with a rejection: the transaction and the statistics updates issued
\* outside it never block each other for ever.
C28_PlaceStakeCompletes ==
  \A p \in Procs : (h[p].kind = "voteTx") ~> (h[p].kind = "none")

\* C29: points are never created: when no request is in progress and all
\* stakes are positive, the sum of all balances plus the sum of the stakes
\* of the votes on unresolved markets is at most the sum of the starting
\* balances.
C29_PointsNeverCreated ==
  /\ \A p \in Procs : Free(p)
  /\ \A k \in 1..Len(votes) : votes[k].pointsStaked > 0
  => SumSeq([u \in 1..NumUsers |-> users[u].points])
       + Staked(SelectSeq(votes,
                          LAMBDA v : ~predictions[v.predictionId].resolved))
       <= NumUsers * StartPoints

\* what user u is credited by the settlement of market m, if it is resolved
Credited(u, m) ==
  LET allVotes == VotesOf(votes, m)
      winningStance == predictions[m].resolvedValue = "true"
      won == SelectSeq(allVotes,
                       LAMBDA v : v.userId = u /\ v.stance = winningStance)
  IN  IF predictions[m].resolved
      THEN SumSeq([k \in 1..Len(won) |->
                     Payout(won[k], allVotes, winningStance)])
      ELSE 0

\* C30: no update of a balance is lost when a resolve credits a user on
\* one market while a placeStake of that user on another market debits
\* it: once the requests are served, every balance is the starting balance
\* minus the user's stakes plus the payouts credited to the user.
C30_CreditAndDebitBothApplied ==
  (\A p \in Procs : Free(p))
    => \A u \in Users :
         users[u].points
           = StartPoints - Staked(VotesBy(votes, u))
               + SumSeq([m \in 1..(NumMarkets + 1) |-> Credited(u, m)])

\* a user was credited by the settlement of market 1 and debited for a
\* stake on another market, by requests served on two handlers
C30_Witness ==
  /\ \A p \in Procs : Free(p) /\ h[p].res = "ok"
  /\ requests = 2
  /\ \E u \in Users :
       /\ \E m \in Markets : Credited(u, m) > 0
       /\ \E k \in 1..Len(votes) :
            votes[k].userId = u /\ votes[k].predictionId \in OpenMarkets

=============================================================================
